---- MODULE Spec2Model ----
(***************************************************************************)
(* Client side of the cfn-lint preview protocol (client/src/extension.ts): *)
(* the module-level registry previews, the webview panels it owns, the   *)
(* generated .dot artifacts on disk and the notifications exchanged with   *)
(* the language server.                                                    *)
(***************************************************************************)
EXTENDS Integers, Sequences, FiniteSets, TLC

VARIABLES
    clientState,       \* the language client: "starting", "running", "startFailed"
    registered,        \* onReady().then(...) has run: handlers and command exist
    activeTextEditor,  \* window.activeTextEditor: a file name, or NoEditor
    previews,          \* extension.ts:24, key string -> panel id
    panels,            \* the live (undisposed) WebviewPanels
    nextPanel,         \* id the next created panel gets (ids are never reused)
    files,             \* the file system at the artifact paths: path -> content
    sent,              \* notifications the client has sent to the server, in order
    last,              \* the handler that ran last and how it ended
    closedKeys,        \* keys whose panel was disposed and not created again since
    lateFor,           \* those of closedKeys with no artifact written since
    settings,          \* the configuration store, per key and scope
    validation,        \* where yamlLangaugeServerValidation stands, and its local
    written,           \* the configuration.update calls made, in order
    prompts,           \* number of showInformationMessage prompts shown
    activations        \* number of times activate() has run its settings part

\* The preview protocol's state.
pvars == <<clientState, registered, activeTextEditor, previews, panels, nextPanel,
           files, sent, last, closedKeys, lateFor>>

\* The configuration synchronizer's state.
cvars == <<settings, validation, written, prompts, activations>>

vars == <<pvars, cvars>>

(***************************************************************************)
(* Bounds of the model.                                                    *)
(***************************************************************************)
MaxPanels == 2
MaxSent == 2
MaxTags == 2
MaxActivations == 2

(***************************************************************************)
(* Values.                                                                 *)
(***************************************************************************)
NoEditor == "<undefined>"
NoFile == "<ENOENT>"

\* Template files the editor can have open (document.fileName).
FileNames == {"/t/a.yaml", "/t/b.yaml"}

\* URI strings a server notification can carry: for each template the form
\* VS Code itself prints, and for one of them an equivalent percent-encoded
\* spelling as well.
RawUris == {"file:///t/a.yaml", "file:///t/a%2Eyaml", "file:///t/b.yaml"}

\* Graph descriptions the server can write into an artifact.
Contents == {"digraph{a}", "digraph{a->b}"}

(***************************************************************************)
(* vscode.Uri, as far as the extension uses it.                            *)
(***************************************************************************)
\* Uri.parse(value): splits scheme://authority/path and percent-decodes.
UriParse(value) ==
    [scheme |-> "file", authority |-> "",
     path |-> CASE value = "file:///t/a.yaml" -> "/t/a.yaml"
                [] value = "file:///t/a%2Eyaml" -> "/t/a.yaml"
                [] value = "file:///t/b.yaml" -> "/t/b.yaml"]

\* Uri.file(path)
UriFile(path) == [scheme |-> "file", authority |-> "", path |-> path]

\* uri.toString(): re-encodes; letters, digits, '/', '.' are left as they are.
UriToString(uri) == uri.scheme \o "://" \o uri.authority \o uri.path

\* uri.fsPath
UriFsPath(uri) == uri.path

\* What JSON.stringify makes of a string parameter of a notification.
JsonOfString(s) == [type |-> "string", value |-> s]

\* What JSON.stringify makes of a Uri parameter (Uri.toJSON: an object).
JsonOfUri(uri) ==
    [type |-> "object", scheme |-> uri.scheme, path |-> uri.path,
     external |-> UriToString(uri), fsPath |-> UriFsPath(uri)]

\* Mutant of PreviewKey: the registry keyed by the string as received.
PreviewKeyAsReceived(file) == file

\* previewKey of reloadSidePreview
PreviewKey(file) == UriToString(UriParse(file))

\* dotFile of reloadSidePreview
DotFile(file) == UriFsPath(UriParse(file)) \o ".dot"

DotFiles == {DotFile(f) : f \in RawUris}

\* Mutant of Lookup: the entry is never found.
LookupNeverFound(key) == 0

\* previews[key] of a JavaScript object: undefined (0) for a missing key.
Lookup(key) == IF key \in DOMAIN previews THEN previews[key] ELSE 0

\* The template-literal delimiter (U+0060) getPreviewContent wraps the text in.
Backtick == "&#96;"

\* getPreviewContent(content)
GetPreviewContent(content) ==
    "<!DOCTYPE html><body>...<script>d3.select(#graph).graphviz().renderDot("
    \o Backtick \o content \o Backtick \o ");</script></body>"

Ran(handler, param, result) ==
    [handler |-> handler, param |-> param, result |-> result]

\* The preview protocol when activate() returns.
InitPreview ==
    /\ clientState = "starting"
    /\ registered = FALSE
    /\ activeTextEditor = NoEditor
    /\ previews = <<>>
    /\ panels = {}
    /\ nextPanel = 1
    /\ files = [d \in DotFiles |-> NoFile]
    /\ sent = <<>>
    /\ last = Ran("activate", "", "ok")
    /\ closedKeys = {}
    /\ lateFor = {}

(***************************************************************************)
(* The configuration store and the settings part of activate().           *)
(* A boolean setting at one scope is "undefined" (not set), "null",        *)
(* "true" or "false".                                                      *)
(***************************************************************************)
SettingValues == {"undefined", "null", "true", "false"}

\* let cloudFormationTags = [...]
cloudFormationTags ==
    << "!And", "!And sequence", "!If", "!If sequence", "!Not", "!Not sequence",
       "!Equals", "!Equals sequence", "!Or", "!Or sequence", "!FindInMap",
       "!FindInMap sequence", "!Base64", "!Join", "!Join sequence", "!Cidr",
       "!Ref", "!Sub", "!Sub sequence", "!GetAtt", "!GetAZs", "!ImportValue",
       "!ImportValue sequence", "!Select", "!Select sequence", "!Split",
       "!Split sequence" >>

\* Tags a user's yaml.customTags can hold: two of CloudFormation's, one other.
TagAlphabet == {"!Ref", "!Split sequence", "!Mine"}

\* Tag lists of at most n entries.
TagLists(n) == UNION {[1..k -> TagAlphabet] : k \in 0..n}

\* array.indexOf(item) < 0
NotIn(array, item) == \A i \in 1..Len(array) : array[i] # item

\* cloudFormationTags.filter((item) => currentTags.indexOf(item) < 0)
RECURSIVE FilterNotIn(_, _)
FilterNotIn(array, currentTags) ==
    IF array = <<>> THEN <<>>
    ELSE (IF NotIn(currentTags, Head(array)) THEN <<Head(array)>> ELSE <<>>)
         \o FilterNotIn(Tail(array), currentTags)

\* Mutant of MergeTags: the fixed tags are appended without the filter.
MergeTagsUnfiltered(currentTags) == currentTags \o cloudFormationTags

\* Mutant of MergeTags: the new tags are put before the existing ones.
MergeTagsNewFirst(currentTags) ==
    FilterNotIn(cloudFormationTags, currentTags) \o currentTags

\* updateTags
MergeTags(currentTags) ==
    currentTags \o FilterNotIn(cloudFormationTags, currentTags)

\* workspace.getConfiguration().get('yaml.customTags'): the workspace value
\* when there is one, else the user (global) value.
GetCustomTags(store) ==
    IF store.customTags.workspaceSet THEN store.customTags.workspaceValue
                                     ELSE store.customTags.globalValue

\* workspace.getConfiguration().get(key) of a boolean setting: the value of
\* the innermost scope that sets it, else the default.
GetSetting(scopes) ==
    IF scopes.workspaceFolderValue # "undefined" THEN scopes.workspaceFolderValue
    ELSE IF scopes.workspaceValue # "undefined" THEN scopes.workspaceValue
    ELSE IF scopes.globalValue # "undefined" THEN scopes.globalValue
    ELSE scopes.defaultValue

\* Mutant of AutocompleteEnabled: the settings part runs whatever the flag.
AutocompleteIgnored == TRUE

\* if (enableAutocomplete)
AutocompleteEnabled == settings.enableAutocomplete

\* The condition under which yamlLangaugeServerValidation prompts.
PromptNeeded(inspect) ==
    \/ inspect.globalValue = "null"
    \/ inspect.workspaceFolderValue = "null"
    \/ inspect.workspaceValue = "null"

\* configuration.update(key, value, ConfigurationTarget.Global) of a boolean
Update(store, key, value) ==
    [store EXCEPT ![key] = [@ EXCEPT !.globalValue = value]]

\* The record kept of one configuration.update call.
UpdateCall(key, value, tags) == [key |-> key, value |-> value, tags |-> tags]

Idle == [pc |-> "idle", cfnValidateYaml |-> "undefined"]

\* The settings before activate() has run, with nothing prompted or written.
ConfigAtRest(store) ==
    /\ settings = store
    /\ validation = Idle
    /\ written = <<>>
    /\ prompts = 0
    /\ activations = 0

\* A store with every setting at its default.
DefaultStore ==
    [enableAutocomplete |-> TRUE,
     customTags |-> [globalValue |-> <<>>, workspaceSet |-> FALSE,
                     workspaceValue |-> <<>>],
     yamlValidate |-> [defaultValue |-> "true", globalValue |-> "undefined",
                       workspaceValue |-> "undefined",
                       workspaceFolderValue |-> "undefined"],
     cfnValidate |-> [defaultValue |-> "null", globalValue |-> "undefined",
                      workspaceValue |-> "undefined",
                      workspaceFolderValue |-> "undefined"]]

Init ==
    /\ InitPreview
    /\ ConfigAtRest(DefaultStore)

\* Mutant of OnFulfilled: the callback also runs when the start was rejected.
OnSettled == clientState \in {"starting", "startFailed"} /\ ~registered

\* The promise languageClient.onReady() can still be fulfilled: a promise is
\* settled once, and the callback given to then() alone runs only on success.
OnFulfilled == clientState = "starting"

\* languageClient.onReady().then(...): registers the two notification
\* handlers and the command.
OnReady ==
    /\ OnFulfilled
    /\ clientState' = IF clientState = "starting" THEN "running" ELSE clientState
    /\ registered' = TRUE
    /\ last' = Ran("onReady", "", "ok")
    /\ UNCHANGED <<cvars, activeTextEditor, previews, panels, nextPanel, files, sent,
                   closedKeys, lateFor>>

\* languageClient.start() fails (the server process does not start or the
\* handshake is refused): the client reports "Couldn't start client ..." with
\* showErrorMessage and rejects onReady(), for which activate() gave no handler.
StartFails ==
    /\ clientState = "starting"
    /\ clientState' = "startFailed"
    /\ last' = Ran("languageClient.start", "", "showErrorMessage")
    /\ UNCHANGED <<cvars, registered, activeTextEditor, previews, panels, nextPanel,
                   files, sent, closedKeys, lateFor>>

\* window.showTextDocument / closing the last editor: the active editor changes.
ShowTextDocument(editor) ==
    /\ editor # activeTextEditor
    /\ activeTextEditor' = editor
    /\ last' = Ran("environment", "", "ok")
    /\ UNCHANGED <<cvars, clientState, registered, previews, panels, nextPanel, files, sent, closedKeys,
                   lateFor>>

\* The server (cfn-lint --build-graph) writes the artifact of a template.
ArtifactWritten(dotFile, content) ==
    /\ files[dotFile] # content
    /\ files' = [files EXCEPT ![dotFile] = content]
    /\ lateFor' = {k \in lateFor : DotFile(k) # dotFile}
    /\ last' = Ran("environment", "", "ok")
    /\ UNCHANGED <<cvars, clientState, registered, activeTextEditor, previews, panels, nextPanel, sent,
                   closedKeys>>

\* The artifact disappears without the client (removed by the server or by hand).
ArtifactRemoved(dotFile) ==
    /\ files[dotFile] # NoFile
    /\ files' = [files EXCEPT ![dotFile] = NoFile]
    /\ last' = Ran("environment", "", "ok")
    /\ UNCHANGED <<cvars, clientState, registered, activeTextEditor, previews, panels, nextPanel, sent,
                   closedKeys, lateFor>>

\* Mutant of ActiveDocumentUri: the file name is sent, not its URI.
ActiveDocumentFileName == activeTextEditor

\* Uri.file(window.activeTextEditor.document.fileName).toString()
ActiveDocumentUri == UriToString(UriFile(activeTextEditor))

\* Mutant of CommandRegistered: the command is registered in activate() itself.
CommandRegisteredAtActivation == TRUE

\* extension.sidePreview exists once the onReady callback has registered it.
CommandRegistered == registered

\* Mutant of HasActiveEditor: the editor is not looked at.
HasActiveEditorUnchecked == TRUE

\* window.activeTextEditor is defined
HasActiveEditor == activeTextEditor # NoEditor

\* The command extension.sidePreview.
SidePreview ==
    /\ CommandRegistered
    /\ Len(sent) < MaxSent
    /\ IF ~HasActiveEditor
         THEN \* window.activeTextEditor is undefined: .document throws
              /\ last' = Ran("extension.sidePreview", "", "TypeError")
              /\ sent' = sent
         ELSE LET uri == ActiveDocumentUri
              IN /\ sent' = Append(sent, [method |-> "cfn/requestPreview",
                                          params |-> JsonOfString(uri)])
                 /\ last' = Ran("extension.sidePreview", uri, "ok")
    /\ UNCHANGED <<cvars, clientState, registered, activeTextEditor, previews, panels, nextPanel, files,
                   closedKeys, lateFor>>

\* Mutant of ExistsSync: the existence check always passes.
ExistsSyncAlways(path) == TRUE

\* fs.existsSync(path)
ExistsSync(path) == files[path] # NoFile

\* fs.readFileSync(path, 'utf8') of an existing file
ReadFileSync(path) == files[path]

\* Mutant of UnlinkSync: the artifact is left on disk.
UnlinkSyncForgotten(path) == files

\* The file system after fs.unlinkSync(path) of an existing file.
UnlinkSync(path) == [files EXCEPT ![path] = NoFile]

\* vscode.window.createWebviewPanel(...) of reloadSidePreview, with what the
\* onDidDispose listener registered on it closes over.
CreateWebviewPanel(file) ==
    [id |-> nextPanel,
     viewType |-> "cfnLintPreview",
     title |-> "Template: " \o UriFsPath(UriParse(file)),
     html |-> "",
     file |-> file,
     previewKey |-> PreviewKey(file),
     dotFile |-> DotFile(file),
     uri |-> UriParse(file)]

\* reloadSidePreview(file, languageClient), the cfn/previewIsAvailable handler.
ReloadSidePreview(file) ==
    LET previewKey == PreviewKey(file)
        dotFile == DotFile(file)
    IN IF ~ExistsSync(dotFile)
         THEN /\ last' = Ran("cfn/previewIsAvailable", file, "showErrorMessage")
              /\ UNCHANGED <<previews, panels, nextPanel, closedKeys, lateFor>>
         ELSE LET content == ReadFileSync(dotFile)
              IN /\ IF Lookup(previewKey) = 0
                      THEN /\ nextPanel <= MaxPanels
                           /\ previews' = [k \in DOMAIN previews \cup {previewKey} |->
                                             IF k = previewKey THEN nextPanel
                                                               ELSE previews[k]]
                           /\ panels' = panels \cup
                                {[CreateWebviewPanel(file) EXCEPT
                                    !.html = GetPreviewContent(content)]}
                           /\ nextPanel' = nextPanel + 1
                      ELSE /\ previews' = previews
                           /\ panels' = {IF p.id = Lookup(previewKey)
                                           THEN [p EXCEPT !.html = GetPreviewContent(content)]
                                           ELSE p : p \in panels}
                           /\ nextPanel' = nextPanel
                 /\ closedKeys' = closedKeys \ {previewKey}
                 /\ lateFor' = lateFor \ {previewKey}
                 /\ last' = Ran("cfn/previewIsAvailable", file, "ok")

PreviewIsAvailable(file) ==
    /\ registered
    /\ ReloadSidePreview(file)
    /\ UNCHANGED <<cvars, clientState, registered, activeTextEditor, files, sent>>

\* Mutant of DeletePreview: the entry stays in the registry.
DeletePreviewForgotten(key) == previews

\* delete previews[key]
DeletePreview(key) == [k \in DOMAIN previews \ {key} |-> previews[k]]

\* Mutant of OnDidDispose: the artifact is unlinked before the registry
\* entry is deleted, so a throwing unlink leaves the entry in place.
OnDidDisposeUnlinkFirst(p, ran) ==
    /\ closedKeys' = closedKeys \cup {p.previewKey}
    /\ lateFor' = lateFor \cup {p.previewKey}
    /\ IF ~ExistsSync(p.dotFile)
         THEN /\ previews' = previews
              /\ files' = files
              /\ sent' = sent
              /\ last' = [ran EXCEPT !.result = "ENOENT"]
         ELSE /\ previews' = DeletePreview(p.previewKey)
              /\ files' = UnlinkSync(p.dotFile)
              /\ sent' = Append(sent, [method |-> "cfn/previewClosed",
                                       params |-> JsonOfUri(p.uri)])
              /\ last' = ran

\* The listener reloadSidePreview registers with onDidDispose, run for panel p
\* when p is disposed; ran is the record of the handler that disposed it.
OnDidDispose(p, ran) ==
    /\ previews' = DeletePreview(p.previewKey)
    /\ closedKeys' = closedKeys \cup {p.previewKey}
    /\ lateFor' = lateFor \cup {p.previewKey}
    /\ IF ~ExistsSync(p.dotFile)
         THEN \* fs.unlinkSync throws ENOENT: the notification is never sent
              /\ files' = files
              /\ sent' = sent
              /\ last' = [ran EXCEPT !.result = "ENOENT"]
         ELSE /\ files' = UnlinkSync(p.dotFile)
              /\ sent' = Append(sent, [method |-> "cfn/previewClosed",
                                       params |-> JsonOfUri(p.uri)])
              /\ last' = ran

\* panel.dispose(): the panel is gone and its onDidDispose listeners run.
Dispose(p, ran) ==
    /\ panels' = panels \ {p}
    /\ OnDidDispose(p, ran)

\* The user closes the preview panel p.
UserClosesPanel(p) ==
    /\ registered
    /\ Len(sent) < MaxSent
    /\ Dispose(p, Ran("close", p.previewKey, "ok"))
    /\ UNCHANGED <<cvars, clientState, registered, activeTextEditor, nextPanel>>

\* The cfn/fileclosed handler: previews[uri].dispose()
FileClosed(uri) ==
    /\ registered
    /\ Len(sent) < MaxSent
    /\ IF Lookup(uri) = 0
         THEN \* previews[uri] is undefined: .dispose() throws
              /\ last' = Ran("cfn/fileclosed", uri, "TypeError")
              /\ UNCHANGED <<previews, panels, files, sent, closedKeys, lateFor>>
         ELSE \E p \in panels :
                /\ p.id = Lookup(uri)
                /\ Dispose(p, Ran("cfn/fileclosed", uri, "ok"))
    /\ UNCHANGED <<cvars, clientState, registered, activeTextEditor, nextPanel>>

Next ==
    \/ OnReady
    \/ StartFails
    \/ \E editor \in FileNames \cup {NoEditor} : ShowTextDocument(editor)
    \/ \E d \in DotFiles, c \in Contents : ArtifactWritten(d, c)
    \/ \E d \in DotFiles : ArtifactRemoved(d)
    \/ SidePreview
    \/ \E file \in RawUris : PreviewIsAvailable(file)
    \/ \E p \in panels : UserClosesPanel(p)
    \/ \E uri \in RawUris : FileClosed(uri)

Spec == Init /\ [][Next]_vars

(***************************************************************************)
(* The settings part of activate() and yamlLangaugeServerValidation().     *)
(***************************************************************************)
\* Mutant of LocalAfterNo: cfnValidateYaml is not set after the answer 'no'.
LocalAfterNoKept(cfnValidateYaml) == cfnValidateYaml

\* cfnValidateYaml = true, in the branch of the answer 'no'
LocalAfterNo(cfnValidateYaml) == "true"

\* The end of yamlLangaugeServerValidation, from store and the update
\* calls so far: if (cfnValidateYaml === false) update('yaml.validate', false).
ValidationEnd(store, calls, cfnValidateYaml) ==
    /\ IF cfnValidateYaml = "false"
         THEN /\ settings' = Update(store, "yamlValidate", "false")
              /\ written' = Append(calls, UpdateCall("yaml.validate", "false", <<>>))
         ELSE /\ settings' = store
              /\ written' = calls
    /\ validation' = Idle

\* yamlLangaugeServerValidation() up to its await, or to its end when it
\* does not prompt.
ValidationStart(store, calls) ==
    LET validateYaml == GetSetting(store.yamlValidate)
        cfnValidateYamlInspect == store.cfnValidate
        cfnValidateYaml == GetSetting(store.cfnValidate)
    IN IF validateYaml = "true"
         THEN IF PromptNeeded(cfnValidateYamlInspect)
                THEN /\ prompts' = prompts + 1
                     /\ validation' = [pc |-> "awaitPrompt",
                                       cfnValidateYaml |-> cfnValidateYaml]
                     /\ settings' = store
                     /\ written' = calls
                ELSE /\ prompts' = prompts
                     /\ ValidationEnd(store, calls, cfnValidateYaml)
         ELSE /\ prompts' = prompts
              /\ validation' = Idle
              /\ settings' = store
              /\ written' = calls

\* activate(), lines 55-94: the tag merge and the call of
\* yamlLangaugeServerValidation.
Activate ==
    /\ validation.pc = "idle"
    /\ activations < MaxActivations
    /\ activations' = activations + 1
    /\ IF AutocompleteEnabled
         THEN LET currentTags == GetCustomTags(settings)
                  updateTags == MergeTags(currentTags)
              IN ValidationStart(
                    [settings EXCEPT !.customTags.globalValue = updateTags],
                    Append(written, UpdateCall("yaml.customTags", "", updateTags)))
         ELSE UNCHANGED <<settings, validation, written, prompts>>
    /\ UNCHANGED pvars

\* showInformationMessage resolves with the button chosen, or with
\* undefined when the prompt is dismissed; the function resumes.
PromptResolved(selection) ==
    /\ validation.pc = "awaitPrompt"
    /\ prompts' = prompts
    /\ CASE selection = "yes" ->
              ValidationEnd(Update(settings, "cfnValidate", "false"),
                            Append(written, UpdateCall("cfnLint.validateUsingJsonSchema",
                                                       "false", <<>>)),
                            validation.cfnValidateYaml)
         [] selection = "no" ->
              ValidationEnd(Update(settings, "cfnValidate", "true"),
                            Append(written, UpdateCall("cfnLint.validateUsingJsonSchema",
                                                       "true", <<>>)),
                            LocalAfterNo(validation.cfnValidateYaml))
         [] OTHER ->
              ValidationEnd(settings, written, validation.cfnValidateYaml)
    /\ UNCHANGED <<pvars, activations>>

NextConfig ==
    \/ Activate
    \/ \E selection \in {"yes", "no", "undefined"} : PromptResolved(selection)

\* Stores whose tag lists vary, with two settings of the validation toggles.
TagStores ==
    {[DefaultStore EXCEPT !.enableAutocomplete = e,
                          !.customTags = [globalValue |-> g, workspaceSet |-> ws,
                                          workspaceValue |-> w],
                          !.cfnValidate.globalValue = c] :
        e \in BOOLEAN, g \in TagLists(MaxTags), ws \in BOOLEAN,
        w \in TagLists(1), c \in {"undefined", "null"}}

InitTags ==
    /\ InitPreview
    /\ \E store \in TagStores :
          /\ ~store.customTags.workspaceSet => store.customTags.workspaceValue = <<>>
          /\ ConfigAtRest(store)

SpecTags == InitTags /\ [][NextConfig]_vars

\* Stores whose validation settings vary over every scope.
ValidationStores ==
    {[DefaultStore EXCEPT !.enableAutocomplete = e,
                          !.customTags.globalValue = <<"!Mine">>,
                          !.yamlValidate.globalValue = yg,
                          !.yamlValidate.workspaceValue = yw,
                          !.cfnValidate = [defaultValue |-> cd, globalValue |-> cg,
                                           workspaceValue |-> cw,
                                           workspaceFolderValue |-> cf]] :
        e \in BOOLEAN, yg \in {"undefined", "true", "false"},
        yw \in {"undefined", "true", "false"},
        cd \in {"null", "true", "false"},
        cg \in SettingValues, cw \in SettingValues, cf \in SettingValues}

InitValidation ==
    /\ InitPreview
    /\ \E store \in ValidationStores : ConfigAtRest(store)

SpecValidation == InitValidation /\ [][NextConfig]_vars

TypeOK ==
    /\ clientState \in {"starting", "running", "startFailed"}
    /\ registered \in BOOLEAN
    /\ activeTextEditor \in FileNames \cup {NoEditor}
    /\ DOMAIN previews \subseteq RawUris
    /\ nextPanel \in 1..(MaxPanels + 1)
    /\ Len(sent) <= MaxSent
    /\ settings.enableAutocomplete \in BOOLEAN
    /\ validation.pc \in {"idle", "awaitPrompt"}
    /\ validation.cfnValidateYaml \in SettingValues
    /\ prompts \in 0..MaxActivations
    /\ activations \in 0..MaxActivations
    /\ Len(written) <= 3 * MaxActivations

(***************************************************************************)
(* Steps of the handlers, told apart by the record they leave in last.     *)
(***************************************************************************)
\* This step is the cfn/previewIsAvailable handler run on file.
IsPreviewIsAvailableStep(file) ==
    /\ last'.handler = "cfn/previewIsAvailable"
    /\ last'.param = file

\* The live panel registered under key.
PanelOf(key) == CHOOSE p \in panels : p.id = Lookup(key)

(***************************************************************************)
(* C1: in every reachable state the registry holds at most one entry per   *)
(* document identity (two keys that parse to the same URI are one key),    *)
(* and at most one live (undisposed) panel exists per document identity.  *)
(***************************************************************************)
C1_AtMostOnePanelPerDocument ==
    /\ \A k1, k2 \in DOMAIN previews : UriParse(k1) = UriParse(k2) => k1 = k2
    /\ \A p, q \in panels : p.uri = q.uri => p = q
    /\ \A f \in RawUris :
         Cardinality({p \in panels : p.uri = UriParse(f)}) <= 1

\* Witness of C1: a.yaml was previewed, its panel closed (the server was
\* told), and a second panel has been created for it, the only live one.
C1_Witness ==
    /\ Len(sent) >= 1
    /\ sent[1].method = "cfn/previewClosed"
    /\ sent[1].params.path = "/t/a.yaml"
    /\ \E p \in panels : /\ p.id = 2
                         /\ p.uri = UriParse("file:///t/a.yaml")
                         /\ panels = {p}
                         /\ Lookup("file:///t/a.yaml") = 2

(***************************************************************************)
(* C2: a previewIsAvailable whose artifact exists creates exactly one new  *)
(* panel, registered under the identity, when the registry has none for    *)
(* it, and otherwise replaces the content of the registered panel without  *)
(* creating a panel; either way the panel then shows the rendering of the  *)
(* artifact as it was on disk at that moment.                              *)
(***************************************************************************)
C2_AvailableCreatesOrRefreshes ==
    [][\A file \in RawUris :
         (IsPreviewIsAvailableStep(file) /\ files[DotFile(file)] # NoFile) =>
            LET key == UriToString(UriParse(file))
                shown == GetPreviewContent(files[DotFile(file)])
            IN /\ key \in DOMAIN previews'
               /\ \E q \in panels' :
                     /\ q.id = previews'[key]
                     /\ q.html = shown
                     /\ IF key \notin DOMAIN previews
                          THEN /\ \A p \in panels : p.id # q.id
                               /\ panels' = panels \cup {q}
                               /\ DOMAIN previews' = DOMAIN previews \cup {key}
                          ELSE /\ q.id = previews[key]
                               /\ panels' = (panels \ {PanelOf(key)}) \cup {q}
                               /\ q = [PanelOf(key) EXCEPT !.html = shown]
                               /\ DOMAIN previews' = DOMAIN previews
               /\ \A k \in DOMAIN previews : previews'[k] = previews[k]
      ]_vars

\* Witness of C2: panel 1 (a.yaml) is older than panel 2 (b.yaml), and the
\* handler that ran last was previewIsAvailable for a.yaml in its other
\* spelling: it refreshed panel 1, which shows the artifact now on disk.
C2_Witness ==
    /\ last = Ran("cfn/previewIsAvailable", "file:///t/a%2Eyaml", "ok")
    /\ Cardinality(panels) = 2
    /\ \E p \in panels : /\ p.id = 1
                         /\ p.file = "file:///t/a.yaml"
                         /\ p.html = GetPreviewContent("digraph{a->b}")
                         /\ files[p.dotFile] = "digraph{a->b}"
    /\ \E p \in panels : p.id = 2 /\ p.file = "file:///t/b.yaml"

(***************************************************************************)
(* C3: a previewIsAvailable whose artifact is absent shows the error       *)
(* message and changes nothing else: registry, panels (their content       *)
(* included), files and notifications sent stay as they were.              *)
(***************************************************************************)
C3_MissingArtifactOnlyShowsError ==
    [][\A file \in RawUris :
         (IsPreviewIsAvailableStep(file) /\ files[DotFile(file)] = NoFile) =>
            /\ last'.result = "showErrorMessage"
            /\ UNCHANGED <<previews, panels, nextPanel, files, sent, registered,
                           activeTextEditor>>
      ]_vars

\* Witness of C3: the error was shown for a.yaml while its panel is open,
\* still showing the earlier artifact, which is no longer on disk.
C3_Witness ==
    /\ last = Ran("cfn/previewIsAvailable", "file:///t/a.yaml", "showErrorMessage")
    /\ files["/t/a.yaml.dot"] = NoFile
    /\ \E p \in panels : /\ p.id = Lookup("file:///t/a.yaml")
                         /\ p.html = GetPreviewContent("digraph{a}")

\* This step disposes the live panel p.
IsDisposeStep(p) == \A q \in panels' : q.id # p.id

\* This step is the cfn/fileclosed handler run on uri.
IsFileClosedStep(uri) ==
    /\ last'.handler = "cfn/fileclosed"
    /\ last'.param = uri

(***************************************************************************)
(* C4: every close of a preview panel, whatever the state of its artifact, *)
(* ends with the registry entry removed, the artifact not on disk and      *)
(* exactly one previewClosed notification sent for that close.             *)
(***************************************************************************)
C4_EveryCloseDeletesAndNotifies ==
    [][\A p \in panels :
         IsDisposeStep(p) =>
            /\ p.previewKey \notin DOMAIN previews'
            /\ files'[p.dotFile] = NoFile
            /\ Len(sent') = Len(sent) + 1
            /\ SubSeq(sent', 1, Len(sent)) = sent
            /\ sent'[Len(sent')].method = "cfn/previewClosed"
      ]_vars

(***************************************************************************)
(* C5: a fileClosed for an identity with no panel in the registry is a     *)
(* no-op: no error is raised, and registry, panels, files and              *)
(* notifications sent are unchanged.                                       *)
(***************************************************************************)
C5_FileClosedWithoutPanelIsNoOp ==
    [][\A uri \in RawUris :
         (IsFileClosedStep(uri) /\ UriToString(UriParse(uri)) \notin DOMAIN previews) =>
            /\ last'.result = "ok"
            /\ UNCHANGED <<previews, panels, files, sent>>
      ]_vars

(***************************************************************************)
(* C6: a fileClosed for an identity with an open panel disposes the panel  *)
(* and removes its registry entry, and no previewClosed notification is    *)
(* sent to the server.                                                     *)
(***************************************************************************)
C6_FileClosedSendsNothing ==
    [][\A uri \in RawUris :
         (IsFileClosedStep(uri) /\ Lookup(uri) # 0) =>
            /\ IsDisposeStep(PanelOf(uri))
            /\ uri \notin DOMAIN previews'
            /\ sent' = sent
      ]_vars

(***************************************************************************)
(* C7: the side-preview command with an active document sends exactly one  *)
(* requestPreview carrying the URI string of that document (the string     *)
(* under which its panel would be registered) and changes nothing locally: *)
(* registry, panels and files are unchanged. A panel only ever appears in  *)
(* a step of the previewIsAvailable handler.                               *)
(***************************************************************************)
C7_CommandOnlySendsRequest ==
    [][/\ (last'.handler = "extension.sidePreview" /\ activeTextEditor # NoEditor) =>
            /\ \E v \in RawUris :
                  /\ UriFsPath(UriParse(v)) = activeTextEditor
                  /\ UriToString(UriParse(v)) = v
                  /\ sent' = Append(sent, [method |-> "cfn/requestPreview",
                                           params |-> [type |-> "string", value |-> v]])
            /\ UNCHANGED <<previews, panels, nextPanel, files, registered,
                           activeTextEditor>>
       /\ (\E q \in panels' : \A p \in panels : p.id # q.id) =>
            last'.handler = "cfn/previewIsAvailable"
      ]_vars

\* Witness of C7: the command ran on b.yaml while a panel for a.yaml is open;
\* the request is the last notification sent and there is no panel for b.yaml.
C7_Witness ==
    /\ last = Ran("extension.sidePreview", "file:///t/b.yaml", "ok")
    /\ activeTextEditor = "/t/b.yaml"
    /\ Len(sent) >= 1
    /\ sent[Len(sent)] = [method |-> "cfn/requestPreview",
                          params |-> [type |-> "string", value |-> "file:///t/b.yaml"]]
    /\ Lookup("file:///t/a.yaml") # 0
    /\ Lookup("file:///t/b.yaml") = 0
    /\ Cardinality(panels) = 1

(***************************************************************************)
(* C8, as stated: a previewIsAvailable that arrives after the panel of its *)
(* identity was closed, with no artifact written in between, re-creates a  *)
(* panel for that identity.                                                *)
(***************************************************************************)
C8_LateNotificationRecreatesPanel ==
    [][\A file \in RawUris :
         (IsPreviewIsAvailableStep(file) /\ PreviewKey(file) \in lateFor) =>
            PreviewKey(file) \in DOMAIN previews'
      ]_vars

(***************************************************************************)
(* C8, amended: a previewIsAvailable that arrives after the panel of its   *)
(* identity was closed re-creates a panel exactly when the artifact exists *)
(* at that moment; the close left no artifact, so with none written in     *)
(* between the notification shows the error and creates no panel.          *)
(***************************************************************************)
C8_LateNotificationNeedsArtifact ==
    [][\A file \in RawUris :
         (IsPreviewIsAvailableStep(file) /\ PreviewKey(file) \in closedKeys) =>
            /\ PreviewKey(file) \notin DOMAIN previews
            /\ PreviewKey(file) \in DOMAIN previews' <=> files[DotFile(file)] # NoFile
            /\ PreviewKey(file) \in lateFor =>
                  /\ files[DotFile(file)] = NoFile
                  /\ last'.result = "showErrorMessage"
                  /\ UNCHANGED <<previews, panels>>
      ]_vars

\* Witness of C8: the panel of a.yaml was closed (its artifact deleted, the
\* server told), nothing was written since, and the late notification ended
\* in the error message with no panel for a.yaml.
C8_Witness ==
    /\ last = Ran("cfn/previewIsAvailable", "file:///t/a.yaml", "showErrorMessage")
    /\ "file:///t/a.yaml" \in lateFor
    /\ Len(sent) >= 1
    /\ sent[Len(sent)].method = "cfn/previewClosed"
    /\ sent[Len(sent)].params.path = "/t/a.yaml"
    /\ Lookup("file:///t/a.yaml") = 0
    /\ panels = {}

(***************************************************************************)
(* C9: the previewClosed sent when a panel closes carries the URI string   *)
(* that the previewIsAvailable which created the panel carried, which is   *)
(* the key the panel was registered under and the value that selects the   *)
(* panel in the fileClosed handler.                                        *)
(***************************************************************************)
C9_ClosedCarriesTheSameIdentity ==
    [][\A p \in panels :
         (IsDisposeStep(p) /\ Len(sent') > Len(sent)) =>
            /\ sent'[Len(sent')] = [method |-> "cfn/previewClosed",
                                    params |-> [type |-> "string", value |-> p.file]]
            /\ p.previewKey = p.file
            /\ Lookup(p.file) = p.id
      ]_vars

(***************************************************************************)
(* C10: a step of the client never creates or rewrites an artifact, and it *)
(* deletes an artifact only in the step that disposes the panel of that    *)
(* artifact and removes its registry entry: after the deletion no          *)
(* registered or live panel belongs to the deleted artifact.               *)
(***************************************************************************)
C10_ClientOnlyDeletesOnClose ==
    [][last'.handler # "environment" =>
         \A d \in DotFiles :
            files'[d] # files[d] =>
               /\ files[d] # NoFile
               /\ files'[d] = NoFile
               /\ \E p \in panels : /\ p.dotFile = d
                                    /\ IsDisposeStep(p)
                                    /\ p.previewKey \notin DOMAIN previews'
               /\ \A q \in panels' : q.dotFile # d
               /\ \A k \in DOMAIN previews' : DotFile(k) # d
      ]_vars

\* Witness of C10: the user closed the panel of a.yaml, whose artifact is
\* gone, while the panel of b.yaml is registered and its artifact on disk.
C10_Witness ==
    /\ last = Ran("close", "file:///t/a.yaml", "ok")
    /\ files["/t/a.yaml.dot"] = NoFile
    /\ Lookup("file:///t/a.yaml") = 0
    /\ Lookup("file:///t/b.yaml") # 0
    /\ files["/t/b.yaml.dot"] # NoFile
    /\ Cardinality(panels) = 1

\* No cfn/requestPreview notification is among those sent.
NoRequestPreviewSent ==
    \A i \in 1..Len(sent) : sent[i].method # "cfn/requestPreview"

C16_NoActiveDocumentSendsNothing ==
    [][(last'.handler = "extension.sidePreview" /\ activeTextEditor = NoEditor)
         => /\ sent' = sent
            /\ previews' = previews
            /\ panels' = panels
            /\ files' = files]_vars

\* Witness of C16: the command ran without an active document while a
\* panel was open.
C16_Witness ==
    /\ last = Ran("extension.sidePreview", "", "TypeError")
    /\ activeTextEditor = NoEditor
    /\ panels # {}

(***************************************************************************)
(* C17: in every reachable state the registry has an entry for a document  *)
(* identity exactly when a live panel exists for that identity, and each   *)
(* entry refers to the live panel created under its key.                   *)
(***************************************************************************)
C17_RegistryMatchesLivePanels ==
    /\ \A f \in RawUris :
         (\E k \in DOMAIN previews : UriParse(k) = UriParse(f))
           <=> (\E p \in panels : p.uri = UriParse(f))
    /\ \A k \in DOMAIN previews :
         \E p \in panels : p.id = previews[k] /\ p.previewKey = k
    /\ \A p \in panels :
         p.previewKey \in DOMAIN previews /\ previews[p.previewKey] = p.id

\* Witness of C17: a close whose artifact deletion failed, while another
\* panel is still live.
C17_Witness ==
    /\ last.result = "ENOENT"
    /\ last.handler \in {"close", "cfn/fileclosed"}
    /\ panels # {}
    /\ last.param \notin DOMAIN previews

\* Before the ready event nothing of the preview protocol has happened.
NothingBeforeReady ==
    ~registered =>
        /\ sent = <<>>
        /\ panels = {}
        /\ DOMAIN previews = {}
        /\ closedKeys = {}
        /\ nextPanel = 1
        /\ last.handler \notin {"extension.sidePreview", "cfn/previewIsAvailable",
                                 "cfn/fileclosed", "close"}

\* The registration runs only while nothing is registered, and is kept.
RegisteredOnce ==
    /\ (last'.handler = "onReady") => (~registered /\ registered')
    /\ registered => registered'

(***************************************************************************)
(* C18: until the server has reported ready no notification is sent, no    *)
(* notification is handled and no panel is created or disposed; the        *)
(* registration of the handlers and of the command happens once and is     *)
(* never undone.                                                           *)
(***************************************************************************)
C18_NothingRunsBeforeReady ==
    /\ []NothingBeforeReady
    /\ [][RegisteredOnce]_vars

\* Witness of C18: after the ready event a request was sent and a panel
\* was created.
C18_Witness ==
    /\ registered
    /\ ~NoRequestPreviewSent
    /\ panels # {}

(***************************************************************************)
(* The tag merge of activate().                                            *)
(***************************************************************************)
\* The yaml.customTags lists written so far, in the order of the writes.
RECURSIVE TagWrites(_)
TagWrites(calls) ==
    IF calls = <<>> THEN <<>>
    ELSE (IF Head(calls).key = "yaml.customTags" THEN <<Head(calls).tags>> ELSE <<>>)
         \o TagWrites(Tail(calls))

\* The position of item in the declaration of cloudFormationTags.
DeclarationIndex(item) ==
    CHOOSE k \in 1..Len(cloudFormationTags) : cloudFormationTags[k] = item

\* This step is a run of activate() with the autocomplete flag true.
IsMergeStep ==
    /\ activations' = activations + 1
    /\ settings.enableAutocomplete

(***************************************************************************)
(* C11: the tag merge is idempotent: every activation after the first      *)
(* writes the same custom-tag list as the first one did, and merging the   *)
(* list in effect once more would not change it either.                    *)
(***************************************************************************)
C11_TagMergeIdempotent ==
    /\ \A i, j \in 1..Len(TagWrites(written)) :
         TagWrites(written)[i] = TagWrites(written)[j]
    /\ \A i \in 1..Len(TagWrites(written)) :
         MergeTags(TagWrites(written)[i]) = TagWrites(written)[i]
    /\ MergeTags(MergeTags(GetCustomTags(settings)))
         = MergeTags(GetCustomTags(settings))

\* Witness of C11: the merge ran twice on a list that began with a tag of
\* the user and a fixed tag.
C11_Witness ==
    /\ Len(TagWrites(written)) = 2
    /\ Len(TagWrites(written)[1]) > Len(cloudFormationTags)
    /\ \E i \in 1..MaxTags : TagWrites(written)[1][i] = "!Ref"
    /\ \E i \in 1..MaxTags : TagWrites(written)[1][i] = "!Mine"

(***************************************************************************)
(* C12: with the autocomplete flag true, activation writes at global scope *)
(* the existing custom-tag list, in its order, followed by exactly the     *)
(* fixed tags the existing list lacks, each once, in declaration order.    *)
(***************************************************************************)
C12_MergedListIsExistingThenNew ==
    [][IsMergeStep =>
        LET currentTags == GetCustomTags(settings)
            call == written'[Len(written) + 1]
            updateTags == call.tags
            added == SubSeq(updateTags, Len(currentTags) + 1, Len(updateTags))
        IN /\ call.key = "yaml.customTags"
           /\ settings'.customTags.globalValue = updateTags
           /\ settings'.customTags.workspaceSet = settings.customTags.workspaceSet
           /\ settings'.customTags.workspaceValue = settings.customTags.workspaceValue
           /\ Len(updateTags) >= Len(currentTags)
           /\ SubSeq(updateTags, 1, Len(currentTags)) = currentTags
           /\ \A i \in 1..Len(added) :
                /\ NotIn(currentTags, added[i])
                /\ ~NotIn(cloudFormationTags, added[i])
           /\ \A i, j \in 1..Len(added) :
                i < j => DeclarationIndex(added[i]) < DeclarationIndex(added[j])
           /\ \A k \in 1..Len(cloudFormationTags) :
                NotIn(currentTags, cloudFormationTags[k])
                  => ~NotIn(added, cloudFormationTags[k])]_vars

\* Witness of C12: the merge has run on a list holding a tag of the user
\* after a fixed tag, and wrote fewer new tags than the fixed list has.
C12_Witness ==
    /\ activations = 1
    /\ written # <<>>
    /\ written[1].key = "yaml.customTags"
    /\ Len(written[1].tags) = Len(cloudFormationTags) + 1
    /\ written[1].tags[1] = "!Split sequence"
    /\ written[1].tags[2] = "!Mine"
    /\ settings.customTags.globalValue = written[1].tags

(***************************************************************************)
(* The validation reconciliation, yamlLangaugeServerValidation().          *)
(***************************************************************************)
\* A scope value that is neither true nor false.
Unset(value) == value \in {"undefined", "null"}

\* The toggle is unset at the global, workspace and workspace-folder scope.
UnsetAtEveryScope(inspect) ==
    /\ Unset(inspect.globalValue)
    /\ Unset(inspect.workspaceValue)
    /\ Unset(inspect.workspaceFolderValue)

\* This step enters the reconciliation (activate() with the autocomplete
\* flag true) while the generic validator is active.
IsReconciliationStep ==
    /\ IsMergeStep
    /\ GetSetting(settings.yamlValidate) = "true"

\* This step resumes the reconciliation after the prompt.
IsPromptResolvedStep ==
    /\ validation.pc = "awaitPrompt"
    /\ validation'.pc = "idle"

\* The update calls made in this step.
CallsOfStep == SubSeq(written', Len(written) + 1, Len(written'))

\* This step is the prompt answered with the button whose choice is
\* persisted as value.
IsChoiceStep(value) ==
    /\ IsPromptResolvedStep
    /\ CallsOfStep # <<>>
    /\ CallsOfStep[1] = UpdateCall("cfnLint.validateUsingJsonSchema", value, <<>>)

\* This step is the prompt dismissed without a choice.
IsDismissStep ==
    /\ IsPromptResolvedStep
    /\ ~IsChoiceStep("true")
    /\ ~IsChoiceStep("false")

(***************************************************************************)
(* C13: with the generic validator active, the reconciliation prompts (once)*)
(* exactly when the linter toggle is unset at every scope, and then the    *)
(* answer is stored as the global value of the toggle; with the toggle set *)
(* at some scope it does not prompt.                                       *)
(***************************************************************************)
C13_PromptsExactlyWhenUnsetEverywhere ==
    [][/\ IsReconciliationStep =>
            IF UnsetAtEveryScope(settings.cfnValidate)
              THEN prompts' = prompts + 1 /\ validation'.pc = "awaitPrompt"
              ELSE prompts' = prompts /\ validation'.pc = "idle"
       /\ \A value \in {"true", "false"} :
            IsChoiceStep(value) => settings'.cfnValidate.globalValue = value]_vars

(***************************************************************************)
(* C14: when the prompt is dismissed without a choice, no setting changes: *)
(* the linter toggle and the generic validator flag keep their values.     *)
(***************************************************************************)
C14_DismissChangesNothing ==
    [][IsDismissStep => settings' = settings /\ written' = written]_vars

(***************************************************************************)
(* C19: with the autocomplete flag false, activation writes no setting     *)
(* (tag list, generic validator flag and linter toggle are unchanged) and  *)
(* shows no prompt.                                                        *)
(***************************************************************************)
C19_AutocompleteOffWritesNothing ==
    [][(activations' = activations + 1 /\ ~settings.enableAutocomplete)
         => /\ settings' = settings
            /\ written' = written
            /\ prompts' = prompts
            /\ validation' = Idle]_vars

\* Witness of C19: activation has run with the flag false on settings for
\* which the reconciliation would have prompted.
C19_Witness ==
    /\ activations >= 1
    /\ ~settings.enableAutocomplete
    /\ GetSetting(settings.yamlValidate) = "true"
    /\ PromptNeeded(settings.cfnValidate)
    /\ GetSetting(settings.cfnValidate) = "false"

\* Every update of yaml.validate made so far wrote false.
OnlyFalseWrittenToYamlValidate ==
    \A i \in 1..Len(written) :
        written[i].key = "yaml.validate" => written[i].value = "false"

(***************************************************************************)
(* C20: a run of the reconciliation entered with the generic validator     *)
(* flag false prompts nothing and writes no validation setting; the flag   *)
(* is only ever changed by writing false at global scope; and in a run in  *)
(* which the user chose no, the flag is not written.                       *)
(***************************************************************************)
C20_NeverEnablesGenericValidator ==
    [][/\ (IsMergeStep /\ GetSetting(settings.yamlValidate) # "true")
            => /\ prompts' = prompts
               /\ validation' = Idle
               /\ Len(CallsOfStep) = 1
               /\ CallsOfStep[1].key = "yaml.customTags"
               /\ settings'.yamlValidate = settings.yamlValidate
               /\ settings'.cfnValidate = settings.cfnValidate
       /\ settings'.yamlValidate # settings.yamlValidate
            => /\ GetSetting(settings.yamlValidate) = "true"
               /\ settings'.yamlValidate
                    = [settings.yamlValidate EXCEPT !.globalValue = "false"]
       /\ OnlyFalseWrittenToYamlValidate'
       /\ IsChoiceStep("true")
            => /\ Len(CallsOfStep) = 1
               /\ settings'.yamlValidate = settings.yamlValidate]_vars

\* Witness of C20: the user chose no while the toggle was false in the
\* workspace, and the generic validator is still active.
C20_Witness ==
    /\ written # <<>>
    /\ written[Len(written)] = UpdateCall("cfnLint.validateUsingJsonSchema", "true", <<>>)
    /\ validation = Idle
    /\ settings.cfnValidate.workspaceValue = "false"
    /\ settings.cfnValidate.workspaceFolderValue = "undefined"
    /\ GetSetting(settings.yamlValidate) = "true"

====
